---- MODULE Spec2Model ----
(***************************************************************************)
(* Backup coverage audit of JuliousGonsalves/AuditAutomation.              *)
(*                                                                         *)
(* One run of generate_pdf: the three discovery functions get_rds_backups, *)
(* get_ec2_backups and get_efs_backups are run one after another, each     *)
(* followed by the rendering of its section, and the report is written.    *)
(* The three backup report files (backup_report.py, backup-report.py,      *)
(* backup_new.py) are the three values of `variant`.                       *)
(*                                                                         *)
(* Strings are TLA+ strings, handled character by character (Len, SubSeq,  *)
(* \o).  A datetime is a number of seconds since 2026-01-01T00:00:00Z.     *)
(***************************************************************************)
EXTENDS Integers, Sequences, FiniteSets, TLC

(***************************************************************************)
(* Bounds of the model.                                                    *)
(***************************************************************************)
\* snapshots or images one provider response holds at most
MaxArtifacts == 6
\* recovery points one vault returns for one file system at most
MaxPerVault == 3
\* number of distinct creation times the provider hands out
MaxT == 3
\* seconds after the start of the run at which the compute loop may read
\* the clock
MaxTick == 1

(***************************************************************************)
(* Python string primitives, character by character.                       *)
(***************************************************************************)
\* the characters the strings of a run are made of, in code point order
CodeOrder ==
    " ()-./0123456789:ABCDEFGHIJKLMNOPQRSTUVWXYZ_abcdefghijklmnopqrstuvwxyz"

CharAt(s, k) == SubSeq(s, k, k)

\* str.lower() on the ASCII letters
LowerOf ==
    [A |-> "a", B |-> "b", C |-> "c", D |-> "d", E |-> "e", F |-> "f",
     G |-> "g", H |-> "h", I |-> "i", J |-> "j", K |-> "k", L |-> "l",
     M |-> "m", N |-> "n", O |-> "o", P |-> "p", Q |-> "q", R |-> "r",
     S |-> "s", T |-> "t", U |-> "u", V |-> "v", W |-> "w", X |-> "x",
     Y |-> "y", Z |-> "z"]
Upper == DOMAIN LowerOf

\* (character, its place in the code point order)
CodePlaces == {<<CharAt(CodeOrder, k), k>> : k \in 1..Len(CodeOrder)}

\* the place of ord(c) among the code points
ord(c) == (CHOOSE p \in CodePlaces : p[1] = c)[2]

\* the k-th character of s.lower()
lower(s, k) ==
    IF CharAt(s, k) \in Upper THEN LowerOf[CharAt(s, k)] ELSE CharAt(s, k)

\* the Python expression `x in s.lower()`
contains(x, s) ==
    \E k \in 1..(Len(s) - Len(x) + 1) :
        \A j \in 1..Len(x) : lower(s, k + j - 1) = CharAt(x, j)

\* the Python expression `a < b` on two strings: the code points at the
\* first place where they differ, the shorter first when there is none
str_lt(a, b) ==
    LET n == IF Len(a) < Len(b) THEN Len(a) ELSE Len(b)
        diff == {k \in 1..n : CharAt(a, k) # CharAt(b, k)}
    IN  IF a = b THEN FALSE
        ELSE IF diff = {} THEN Len(a) < Len(b)
        ELSE LET d == CHOOSE k \in diff : \A j \in diff : k <= j
             IN  ord(CharAt(a, d)) < ord(CharAt(b, d))

\* s.split(":")[-1]
last_field(s) ==
    LET colons == {k \in 1..Len(s) : CharAt(s, k) = ":"}
    IN  IF colons = {} THEN s
        ELSE SubSeq(s, (CHOOSE k \in colons : \A j \in colons : j <= k) + 1,
                    Len(s))

(***************************************************************************)
(* datetime: strptime, strftime and the provider's timestamp format.       *)
(* Years are taken as 365 days long, which is exact for 2026 and 2027.     *)
(***************************************************************************)
DaysBefore == <<0, 31, 59, 90, 120, 151, 181, 212, 243, 273, 304, 334>>
DaysIn == <<31, 28, 31, 30, 31, 30, 31, 31, 30, 31, 30, 31>>
Digits == "0123456789"

IsDigit(c) == \E k \in 1..10 : CharAt(Digits, k) = c
DigitVal(c) == (CHOOSE k \in 1..10 : CharAt(Digits, k) = c) - 1

\* int() of the two digits of s at k, k + 1
Num2(s, k) == 10 * DigitVal(CharAt(s, k)) + DigitVal(CharAt(s, k + 1))

AllDigits(s, from, to) == \A k \in from..to : IsDigit(CharAt(s, k))

Pad2(n) == CharAt(Digits, (n \div 10) + 1) \o CharAt(Digits, (n % 10) + 1)
Pad4(n) == Pad2(n \div 100) \o Pad2(n % 100)

YearOf(t) == 2026 + (t \div (365 * 86400))
DayOfYear(t) == (t % (365 * 86400)) \div 86400
MonthOf(t) ==
    CHOOSE m \in 1..12 :
        /\ DaysBefore[m] <= DayOfYear(t)
        /\ DayOfYear(t) < DaysBefore[m] + DaysIn[m]
DayOf(t) == DayOfYear(t) - DaysBefore[MonthOf(t)] + 1
HourOf(t) == (t % 86400) \div 3600
MinuteOf(t) == (t % 3600) \div 60
SecondOf(t) == t % 60

\* dt.strftime("%Y-%m-%d %H:%M:%S UTC")
strftime(t) ==
    Pad4(YearOf(t)) \o "-" \o Pad2(MonthOf(t)) \o "-" \o Pad2(DayOf(t)) \o " "
    \o Pad2(HourOf(t)) \o ":" \o Pad2(MinuteOf(t)) \o ":" \o Pad2(SecondOf(t))
    \o " UTC"

\* the creation_date string the image catalog returns for an instant
\* (ISO 8601 with a millisecond fraction)
creation_date_of(t) ==
    Pad4(YearOf(t)) \o "-" \o Pad2(MonthOf(t)) \o "-" \o Pad2(DayOf(t)) \o "T"
    \o Pad2(HourOf(t)) \o ":" \o Pad2(MinuteOf(t)) \o ":" \o Pad2(SecondOf(t))
    \o ".000Z"

\* does datetime.strptime(s, "%Y-%m-%dT%H:%M:%S.%fZ") accept s (otherwise it
\* raises ValueError); fields of the provider's fixed width
strptime_ok(s) ==
    /\ Len(s) = 24
    /\ CharAt(s, 5) = "-" /\ CharAt(s, 8) = "-" /\ CharAt(s, 11) = "T"
    /\ CharAt(s, 14) = ":" /\ CharAt(s, 17) = ":" /\ CharAt(s, 20) = "."
    /\ CharAt(s, 24) = "Z"
    /\ AllDigits(s, 1, 4) /\ AllDigits(s, 6, 7) /\ AllDigits(s, 9, 10)
    /\ AllDigits(s, 12, 13) /\ AllDigits(s, 15, 16) /\ AllDigits(s, 18, 19)
    /\ AllDigits(s, 21, 23)
    /\ Num2(s, 6) \in 1..12
    /\ Num2(s, 9) \in 1..DaysIn[Num2(s, 6)]
    /\ Num2(s, 12) < 24
    /\ Num2(s, 15) < 60
    /\ Num2(s, 18) < 62

\* the instant strptime returns for an accepted string
strptime(s) ==
    (((((100 * Num2(s, 1) + Num2(s, 3)) - 2026) * 365
       + DaysBefore[Num2(s, 6)] + Num2(s, 9) - 1) * 24
      + Num2(s, 12)) * 60
     + Num2(s, 15)) * 60
    + Num2(s, 18)

\* Python values handed to format_time: a datetime object (boto3 gives one
\* for SnapshotCreateTime and CreationDate) or a str (creation_date)
datetime(t) == [cls |-> "datetime", secs |-> t, text |-> ""]
str(s) == [cls |-> "str", secs |-> 0, text |-> s]

\* format_time(dt): "-" for a missing value, the raw string when it cannot
\* be parsed, the formatted instant otherwise
format_time(dt) ==
    IF dt.cls = "str"
    THEN IF dt.text = "" THEN "-"
         ELSE IF strptime_ok(dt.text) THEN strftime(strptime(dt.text))
         ELSE dt.text
    ELSE strftime(dt.secs)

\* the key order of sorted(): datetime objects by instant, str by code point
key_gt(a, b) ==
    IF a.cls = "str" THEN str_lt(b.text, a.text) ELSE a.secs > b.secs

\* the place sorted(xs, key=..., reverse=True) gives to the element at
\* index k; keys[k] is the key of xs[k]; elements with equal keys keep their
\* order (Python's sort is stable, also when reversed)
sorted_place(keys, k) ==
    1 + Cardinality({j \in 1..Len(keys) : key_gt(keys[j], keys[k])})
      + Cardinality({j \in 1..(k - 1) : keys[j] = keys[k]})

\* the place an ascending sort gives to the element at index k
ascending_place(keys, k) ==
    1 + Cardinality({j \in 1..Len(keys) : key_gt(keys[k], keys[j])})
      + Cardinality({j \in 1..(k - 1) : keys[j] = keys[k]})

\* a plausible slip: ascending order (reverse=True forgotten)
sorted_ascending(xs, keys) ==
    LET placed == {<<ascending_place(keys, k), k>> : k \in 1..Len(xs)}
    IN  [p \in 1..Len(xs) |-> xs[(CHOOSE e \in placed : e[1] = p)[2]]]

\* a plausible slip: an ascending sort read backwards, sorted(xs)[::-1],
\* which turns the order of the elements with equal keys around
sorted_backwards(xs, keys) ==
    LET placed == {<<Len(xs) + 1 - ascending_place(keys, k), k>> :
                      k \in 1..Len(xs)}
    IN  [p \in 1..Len(xs) |-> xs[(CHOOSE e \in placed : e[1] = p)[2]]]

\* sorted(xs, key=..., reverse=True)
sorted_reverse(xs, keys) ==
    LET placed == {<<sorted_place(keys, k), k>> : k \in 1..Len(xs)}
    IN  [p \in 1..Len(xs) |-> xs[(CHOOSE e \in placed : e[1] = p)[2]]]

\* the cap of the selection, the 5 of xs[:5]
TopN == 5

\* xs[:5]
first5(xs) == SubSeq(xs, 1, IF Len(xs) < TopN THEN Len(xs) ELSE TopN)

(***************************************************************************)
(* The providers.  What AWS answers is an input of the run: the inventory  *)
(* of each kind, the artifacts each lookup returns and whether a call is   *)
(* rejected with a ClientError.  The creation times of the artifacts of    *)
(* one answer follow a pattern fixed for the run by `stride`, so that      *)
(* answers come unsorted and with equal times.                             *)
(***************************************************************************)
AWS_REGION == "us-east-1"
Account == "123456789012"

\* str(e) of the botocore ClientError the model's providers raise
ClientErrorText ==
    "An error occurred (AccessDenied) when calling the operation: denied"

\* the instant the run starts: 2026-11-05 12:00:00 UTC
Now0 == (DaysBefore[11] + 4) * 86400 + 12 * 3600

\* timedelta(weeks=6), in seconds
SixWeeks == 6 * 7 * 86400

\* index, in 0..MaxT-1, of the creation time of the q-th artifact
TimeIdx(st, q) == (st * q) % MaxT

\* snapshots and recovery points: any age (here some ten months old)
OldTime(st, q) == TimeIdx(st, q) * 90061

\* images: around the six-week cutoff of the start of the run, to the second
ImageTime(st, q) == Now0 - SixWeeks + TimeIdx(st, q)

Digit(k) == CharAt(Digits, k + 1)

\* describe_db_cluster_snapshots(DBClusterIdentifier=cid)["DBClusterSnapshots"]
\* when the cluster has n snapshots
Snapshots(st, cid, n) ==
    [k \in 1..n |->
        [DBClusterSnapshotIdentifier |-> "rds:" \o cid \o "-snap-" \o Digit(k),
         SnapshotCreateTime |-> datetime(OldTime(st, k))]]

\* ec2_res.images.filter(name=*inst*) when n images carry the instance id
Images(st, inst, n) ==
    [k \in 1..n |->
        [id |-> "ami-" \o SubSeq(inst, 3, Len(inst)) \o Digit(k),
         name |-> "dlm-" \o inst \o "-" \o Digit(k),
         creation_date |-> str(creation_date_of(ImageTime(st, k)))]]

\* list_recovery_points_by_backup_vault(...)["RecoveryPoints"] when vault w
\* (the w-th of the account) holds n recovery points of the file system
RecoveryPoints(st, fs_id, w, n) ==
    [k \in 1..n |->
        [RecoveryPointArn |-> "arn:aws:backup:" \o AWS_REGION \o ":" \o Account
                              \o ":recovery-point:" \o fs_id \o "-v" \o Digit(w)
                              \o "-" \o Digit(k),
         ResourceArn |-> "arn:aws:elasticfilesystem:" \o AWS_REGION \o ":"
                         \o Account \o ":file-system/" \o fs_id,
         CreationDate |-> datetime(OldTime(st, (w - 1) * MaxPerVault + k))]]

\* the same answer with the creation_date of the image at index bad (none
\* when bad = 0) given without the fraction of a second
ImagesWith(st, inst, n, bad) ==
    [k \in 1..n |->
        IF k = bad
        THEN [Images(st, inst, n)[k] EXCEPT
                 !.creation_date = str(SubSeq(@.text, 1, 19) \o "Z")]
        ELSE Images(st, inst, n)[k]]

NoTags == <<>>
PlainTags == <<[Key |-> "Name", Value |-> "web-1"]>>
AutoscalingTags ==
    <<[Key |-> "Name", Value |-> "worker"],
      [Key |-> "aws:AutoScaling:groupName", Value |-> "workers"]>>
KarpenterTags == <<[Key |-> "managed-by", Value |-> "Karpenter"]>>

\* the resources that exist in the account, with their tags
Clusters ==
    {[DBClusterIdentifier |-> "db-1", TagList |-> NoTags],
     [DBClusterIdentifier |-> "db-2", TagList |-> KarpenterTags]}
Instances ==
    {[InstanceId |-> "i-0a1", Tags |-> NoTags],
     [InstanceId |-> "i-0b2", Tags |-> PlainTags],
     [InstanceId |-> "i-0c3", Tags |-> AutoscalingTags],
     [InstanceId |-> "i-0d4", Tags |-> KarpenterTags]}
FileSystems ==
    {[FileSystemId |-> "fs-1", Tags |-> PlainTags],
     [FileSystemId |-> "fs-2", Tags |-> AutoscalingTags]}
VaultLists ==
    {<<>>,
     <<[BackupVaultName |-> "Default"]>>,
     <<[BackupVaultName |-> "Default"], [BackupVaultName |-> "efs-vault"]>>}

\* how many artifacts a lookup returns: none, fewer than the cap, the cap,
\* more than the cap
Sizes == {0, 1, 2, TopN, MaxArtifacts}
VaultSizes == {0, 1, MaxPerVault}

\* the lists an inventory call can return: up to two of the resources, in
\* either order
Inventories(S) ==
    {<<>>} \cup {<<a>> : a \in S}
           \cup ({<<a, b>> : a \in S, b \in S} \ {<<a, a>> : a \in S})

\* what an inventory call can get for the resources the provider holds: all
\* of them in one response, or, of two resources, a first page with one of
\* them and a marker for the page with the other
Responses(S) ==
    {[page |-> inv, unread |-> <<>>] : inv \in Inventories(S)}
    \cup {[page |-> <<q[1]>>, unread |-> <<q[2]>>] :
             q \in {r \in S \X S : r[1] # r[2]}}

(***************************************************************************)
(* Row production: the bodies of the three discovery loops.                *)
(***************************************************************************)
EXCLUDE == <<"autoscaling", "karpenter">>

\* a plausible slip: only the tag keys are searched, not the values
skip_keys_only(tags) ==
    \E t \in 1..Len(tags) : \E e \in 1..Len(EXCLUDE) :
        contains(EXCLUDE[e], tags[t].Key)

\* get_ec2_backups.skip(tags)
skip(tags) ==
    \E t \in 1..Len(tags) : \E e \in 1..Len(EXCLUDE) :
        \/ contains(EXCLUDE[e], tags[t].Key)
        \/ contains(EXCLUDE[e], tags[t].Value)

\* the describe_instances loop without the skip() test: every instance id
ec2_instances_unfiltered(reservations) ==
    [k \in 1..Len(reservations) |-> reservations[k].InstanceId]

\* the describe_instances loop: the ids of the instances skip() lets through
ec2_instances(reservations) ==
    LET kept == SelectSeq(reservations, LAMBDA r : ~skip(r.Tags))
    IN  [k \in 1..Len(kept) |-> kept[k].InstanceId]

\* a plausible slip: the six-week window of the images applied to snapshots
rds_recent_six_weeks(snaps) ==
    LET kept == SelectSeq(snaps,
                    LAMBDA s : s.SnapshotCreateTime.secs >= Now0 - SixWeeks)
    IN  first5(sorted_reverse(kept,
            [k \in 1..Len(kept) |-> kept[k].SnapshotCreateTime]))

\* get_rds_backups: snaps = sorted(...)[:5]
rds_recent(snaps) ==
    first5(sorted_reverse(snaps,
        [k \in 1..Len(snaps) |-> snaps[k].SnapshotCreateTime]))

\* get_rds_backups: the rows of one cluster whose snapshot query returned
rds_rows(cid, snaps) ==
    LET recent == rds_recent(snaps)
    IN  IF recent # <<>>
        THEN [k \in 1..Len(recent) |->
                 <<recent[k].DBClusterSnapshotIdentifier,
                   format_time(recent[k].SnapshotCreateTime)>>]
        ELSE << <<cid, "No backups configured">> >>

\* a plausible slip: the error row written with the three cells of the
\* other kinds
rds_error_rows_dash(cid, e) == << <<cid, "Error: " \o e, "-">> >>

\* get_rds_backups: the row of one cluster whose snapshot query was rejected
rds_error_rows(cid, e) == << <<cid, "Error: " \o e>> >>

\* get_ec2_backups: the strptime of the cutoff comprehension raises
\* ValueError for a creation_date it does not accept
ec2_cutoff_raises(amis) ==
    \E a \in 1..Len(amis) : ~strptime_ok(amis[a].creation_date.text)

\* a plausible slip: an exclusive comparison against the cutoff
ec2_cutoff_exclusive(amis, six_weeks) ==
    SelectSeq(amis, LAMBDA a : strptime(a.creation_date.text) > six_weeks)

\* a plausible slip: the older images are kept behind the recent ones, and
\* fill the five places the recent ones leave free
ec2_cutoff_deprioritised(amis, six_weeks) ==
    SelectSeq(amis, LAMBDA a : strptime(a.creation_date.text) >= six_weeks)
    \o SelectSeq(amis, LAMBDA a : strptime(a.creation_date.text) < six_weeks)

\* get_ec2_backups: the images created at six_weeks or later
ec2_cutoff(amis, six_weeks) ==
    SelectSeq(amis, LAMBDA a : strptime(a.creation_date.text) >= six_weeks)

\* get_ec2_backups: recent = sorted(recent, key=creation_date, ...)[:5]
ec2_recent(cands) ==
    first5(sorted_reverse(cands,
        [k \in 1..Len(cands) |-> cands[k].creation_date]))

\* a plausible slip: an instance without a recent image is left out
ec2_rows_no_sentinel(inst, amis, six_weeks) ==
    LET recent == ec2_recent(ec2_cutoff(amis, six_weeks))
    IN  [k \in 1..Len(recent) |->
            <<inst \o " (AMI)", recent[k].id,
              format_time(recent[k].creation_date)>>]

\* get_ec2_backups: the rows of one instance
ec2_rows(inst, amis, six_weeks) ==
    LET recent == ec2_recent(ec2_cutoff(amis, six_weeks))
    IN  IF recent # <<>>
        THEN [k \in 1..Len(recent) |->
                 <<inst \o " (AMI)", recent[k].id,
                   format_time(recent[k].creation_date)>>]
        ELSE << <<inst, "No AMIs / DLM backups configured", "-">> >>

\* a plausible slip: backups = rps, each vault replacing the one before
efs_overwrite(backups, rps) == rps

\* get_efs_backups: backups.extend(rps)
efs_extend(backups, rps) == backups \o rps

\* a plausible slip: a rejected vault query empties the list
efs_pass_reset(backups) == <<>>

\* get_efs_backups: except botocore.exceptions.ClientError: pass
efs_pass(backups) == backups

\* get_efs_backups: recent = sorted(backups, key=CreationDate, ...)[:5]
efs_recent(backups) ==
    first5(sorted_reverse(backups,
        [k \in 1..Len(backups) |-> backups[k].CreationDate]))

\* a plausible slip: a file system without recovery points is left out
efs_rows_silent(fs_id, backups) ==
    LET recent == efs_recent(backups)
    IN  [k \in 1..Len(recent) |->
            <<fs_id, last_field(recent[k].RecoveryPointArn),
              format_time(recent[k].CreationDate)>>]

\* get_efs_backups: the rows of one file system
efs_rows(fs_id, backups) ==
    IF backups # <<>>
    THEN LET recent == efs_recent(backups)
         IN  [k \in 1..Len(recent) |->
                 <<fs_id, last_field(recent[k].RecoveryPointArn),
                   format_time(recent[k].CreationDate)>>]
    ELSE << <<fs_id, "No backups configured", "-">> >>

(***************************************************************************)
(* Row production in backup-report.py and backup_new.py, whose three       *)
(* discovery functions are written alike, and the choice of the functions  *)
(* of the report file that runs.                                           *)
(***************************************************************************)
EXCLUDE_TAGS == <<"autoscaling", "karpenter">>

\* the Python expression `x in s`
contains_cased(x, s) ==
    \E k \in 1..(Len(s) - Len(x) + 1) : SubSeq(s, k, k + Len(x) - 1) = x

\* a plausible slip: .lower() forgotten on the key and the value
has_excluded_tags_cased(tags) ==
    \E tag \in 1..Len(tags) : \E ex \in 1..Len(EXCLUDE_TAGS) :
        \/ contains_cased(EXCLUDE_TAGS[ex], tags[tag].Key)
        \/ contains_cased(EXCLUDE_TAGS[ex], tags[tag].Value)

\* get_ec2_backups.has_excluded_tags(tags)
has_excluded_tags(tags) ==
    \E tag \in 1..Len(tags) : \E ex \in 1..Len(EXCLUDE_TAGS) :
        \/ contains(EXCLUDE_TAGS[ex], tags[tag].Key)
        \/ contains(EXCLUDE_TAGS[ex], tags[tag].Value)

\* get_ec2_backups: the describe_instances loop
instances_kept(reservations) ==
    LET kept == SelectSeq(reservations,
                          LAMBDA r : ~has_excluded_tags(r.Tags))
    IN  [k \in 1..Len(kept) |-> kept[k].InstanceId]

\* get_rds_backups: the rows of one cluster whose snapshot query returned
result_rds(cluster_id, snapshots) ==
    LET recent == first5(sorted_reverse(snapshots,
                      [k \in 1..Len(snapshots) |->
                          snapshots[k].SnapshotCreateTime]))
    IN  IF recent # <<>>
        THEN [k \in 1..Len(recent) |->
                 <<recent[k].DBClusterSnapshotIdentifier,
                   format_time(recent[k].SnapshotCreateTime)>>]
        ELSE << <<cluster_id, "No backups configured">> >>

\* get_ec2_backups: the rows of one instance
results_ec2(inst_id, amis, six_weeks_ago) ==
    LET within == SelectSeq(amis,
                      LAMBDA a : strptime(a.creation_date.text)
                                 >= six_weeks_ago)
        recent_amis == first5(sorted_reverse(within,
                           [k \in 1..Len(within) |->
                               within[k].creation_date]))
    IN  IF recent_amis # <<>>
        THEN [k \in 1..Len(recent_amis) |->
                 <<inst_id \o " (AMI)", recent_amis[k].id,
                   format_time(recent_amis[k].creation_date)>>]
        ELSE << <<inst_id, "No AMIs / DLM backups configured", "-">> >>

\* get_efs_backups: the rows of one file system
results_efs(fs_id, backups) ==
    IF backups # <<>>
    THEN LET recent == first5(sorted_reverse(backups,
                           [k \in 1..Len(backups) |->
                               backups[k].CreationDate]))
         IN  [k \in 1..Len(recent) |->
                 <<fs_id, last_field(recent[k].RecoveryPointArn),
                   format_time(recent[k].CreationDate)>>]
    ELSE << <<fs_id, "No backups configured", "-">> >>

\* the functions of the report file var
instances_of(var, reservations) ==
    IF var = "backup_report.py" THEN ec2_instances(reservations)
    ELSE instances_kept(reservations)
rows_rds(var, cid, snaps) ==
    IF var = "backup_report.py" THEN rds_rows(cid, snaps)
    ELSE result_rds(cid, snaps)
rows_ec2(var, inst, amis, six_weeks) ==
    IF var = "backup_report.py" THEN ec2_rows(inst, amis, six_weeks)
    ELSE results_ec2(inst, amis, six_weeks)
rows_efs(var, fs_id, backups) ==
    IF var = "backup_report.py" THEN efs_rows(fs_id, backups)
    ELSE results_efs(fs_id, backups)

(***************************************************************************)
(* Rendering: BorderPDF.table and the three sections of generate_pdf, as   *)
(* each of the three report files writes them.                             *)
(***************************************************************************)
Variants == {"backup_report.py", "backup-report.py", "backup_new.py"}

RdsHeader == <<"Snapshot ID", "Created On">>
Ec2Header == <<"Instance / AMI", "Backup ID", "Created On">>
EfsHeader == <<"EFS ID", "Backup ID", "Created On">>

\* BorderPDF.table: a row cut or padded to the width of the header
table_fit(header, row) ==
    [c \in 1..Len(header) |-> IF c <= Len(row) THEN row[c] ELSE ""]

\* BorderPDF.table: is the row drawn in red italics
table_highlight(cells) ==
    \E c \in 1..Len(cells) : contains("no backup", cells[c])

\* BorderPDF.table(header, data): the rows it draws, none for empty data
table(header, data) ==
    [k \in 1..Len(data) |->
        [cells |-> table_fit(header, data[k]),
         red |-> table_highlight(table_fit(header, data[k]))]]

\* all(token in str(r[1]).lower() for r in rows)
all_match(token, rows) ==
    \A k \in 1..Len(rows) : contains(token, rows[k][2])

\* the two ways a section is written: pdf.cell(0, 8, text, 0, 1) in red
\* italics, or pdf.table(header, rows)
Banner(text) == [form |-> "banner", text |-> text, header |-> <<>>]
Table(header) == [form |-> "table", text |-> "", header |-> header]

\* a plausible slip: the section collapses as soon as one row is a sentinel
section_any_sentinel(kind, rows) ==
    LET hit == \E k \in 1..Len(rows) : contains("no ", rows[k][2])
    IN  IF kind = "rds"
        THEN IF rows = <<>> \/ hit
             THEN Banner("No backups configured for RDS.")
             ELSE Table(RdsHeader)
        ELSE IF kind = "ec2"
        THEN IF rows = <<>> \/ hit
             THEN Banner("No backups configured for EC2.")
             ELSE Table(Ec2Header)
        ELSE IF rows = <<>> \/ hit
             THEN Banner("No backups configured for EFS.")
             ELSE Table(EfsHeader)

\* backup_report.py, generate_pdf: the section of one kind
section_backup_report(kind, rows) ==
    IF kind = "rds"
    THEN IF rows = <<>> \/ all_match("no backup", rows)
         THEN Banner("No backups configured for RDS.")
         ELSE Table(RdsHeader)
    ELSE IF kind = "ec2"
    THEN IF rows = <<>> \/ all_match("no ami", rows)
         THEN Banner("No backups configured for EC2.")
         ELSE Table(Ec2Header)
    ELSE IF rows = <<>>
         THEN Banner("No EFS file systems detected or no backups found.")
         ELSE IF all_match("no backups", rows)
         THEN Banner("No backups configured for EFS.")
         ELSE Table(EfsHeader)

\* backup-report.py, generate_pdf: the section of one kind
section_backup_dash_report(kind, rows) ==
    IF kind = "rds"
    THEN IF rows = <<>> \/ all_match("no backup", rows)
         THEN Banner("No backups configured for RDS.")
         ELSE Table(RdsHeader)
    ELSE IF kind = "ec2"
    THEN IF rows = <<>> \/ all_match("no backup", rows)
         THEN Banner("No backups configured for EC2.")
         ELSE Table(Ec2Header)
    ELSE IF rows = <<>>
         THEN Banner("No EFS file systems detected or no backups found.")
         ELSE IF all_match("no backup", rows)
         THEN Banner("No backups configured for EFS.")
         ELSE Table(EfsHeader)

\* backup_new.py, generate_pdf: the section of one kind (all() of no row
\* at all is True)
section_backup_new(kind, rows) ==
    IF kind = "rds"
    THEN IF all_match("no backup", rows)
         THEN Banner("No backups configured for RDS.")
         ELSE Table(RdsHeader)
    ELSE IF kind = "ec2"
    THEN IF all_match("no backup", rows)
         THEN Banner("No backups configured for EC2.")
         ELSE Table(Ec2Header)
    ELSE IF all_match("no backup", rows)
         THEN Banner("No backups configured for EFS.")
         ELSE Table(EfsHeader)

\* the section as the running report file renders it
section(var, kind, rows) ==
    IF var = "backup_report.py" THEN section_backup_report(kind, rows)
    ELSE IF var = "backup-report.py" THEN section_backup_dash_report(kind, rows)
    ELSE section_backup_new(kind, rows)

(***************************************************************************)
(* The run of generate_pdf.                                                *)
(***************************************************************************)
VARIABLES
    variant,     \* the report file that runs
    stride,      \* the pattern of creation times the providers hand out
    pc,          \* where generate_pdf stands
    inventory,   \* clusters / the instances of describe_instances / filesystems
    unread,      \* the resources of the kind on the pages of the provider
                 \* that follow the response, which carried their marker
    instances,   \* get_ec2_backups: the ids of the instances let through
    vaults,      \* get_efs_backups: vaults
    i,           \* index of the resource the discovery loop treats next
    w,           \* get_efs_backups: index of the vault queried next
    backups,     \* get_efs_backups: backups of the file system being treated
    failures,    \* get_efs_backups: vault queries rejected for that file system
    fetched,     \* get_efs_backups: what the vaults answered for that file
                 \* system, in the order of the queries
    out,         \* the rows of the kind being built (out / results)
    done,        \* per resource treated: what the provider answered, the rows
    pdf,         \* the section titles written so far
    body,        \* what stands under the latest title, a banner or a table,
                 \* until the discovery of the next kind starts
    raised,      \* the exception that left generate_pdf, "" when none
    written      \* pdf.output() was called

vars == <<variant, stride, pc, inventory, unread, instances, vaults, i, w,
          backups, failures, fetched, out, done, pdf, body, raised, written>>

NoBody == [form |-> "none", text |-> "", header |-> <<>>, rows |-> <<>>]

(***************************************************************************)
(* run_and_combine_reports.py, the orchestrator that runs the report       *)
(* scripts one after another, merges their PDFs and uploads them.  Its     *)
(* state stands still while generate_pdf is followed, and the other way    *)
(* round.                                                                  *)
(***************************************************************************)
VARIABLES
    opc,             \* where __main__ stands
    key,             \* index in MERGE_ORDER of the script run next
    waited,          \* run_script_and_wait: waited
    present,         \* os.path.exists(expected_pdf), for the script waited for
    generated_pdfs,  \* __main__: generated_pdfs
    log,             \* per script run: its key, how it exited, whether its
                     \* PDF was seen
    merged,          \* the list handed to merge_pdfs
    uploaded         \* the list handed to upload_reports_to_s3

orch_vars == <<opc, key, waited, present, generated_pdfs, log, merged,
               uploaded>>

SCRIPTS ==
    [cover_page |-> "cover_page.py", sso |-> "user_report.py",
     securityhub |-> "securityhub_report.py", clientcentral |-> "cc_report.py",
     backup |-> "backup_report.py", monitoring |-> "grafana_report.py"]

PDF_OUTPUTS ==
    [cover_page |-> "Monthly_Audit_Intro.pdf",
     sso |-> "SSO_User_List_Evosus.pdf",
     securityhub |-> "Security_Hub_Report.pdf",
     clientcentral |-> "Ticket_Report_Final.pdf",
     backup |-> "Backup_Audit_Report.pdf",
     monitoring |-> "screenshots/Monitoring_Report.pdf"]

FINAL_OUTPUT == "Evosus_Monthly_Audit_Report_Combined.pdf"

MERGE_ORDER ==
    <<"cover_page", "sso", "securityhub", "clientcentral", "backup",
      "monitoring">>

\* run_script_and_wait: the number of polls, one second apart
timeout == 180

\* __main__ before its loop
main_start ==
    /\ opc = "loop"
    /\ key = 1
    /\ waited = 0
    /\ present = FALSE
    /\ generated_pdfs = <<>>
    /\ log = <<>>
    /\ merged = <<>>
    /\ uploaded = <<>>

Init ==
    /\ variant \in Variants
    /\ stride \in 0..(MaxT - 1)
    /\ pc = "rds_list"
    /\ inventory = <<>>
    /\ unread = <<>>
    /\ instances = <<>>
    /\ vaults = <<>>
    /\ i = 1
    /\ w = 1
    /\ backups = <<>>
    /\ failures = 0
    /\ fetched = <<>>
    /\ out = <<>>
    /\ done = <<>>
    /\ pdf = <<>>
    /\ body = NoBody
    /\ raised = ""
    /\ written = FALSE
    /\ main_start

\* an uncaught exception leaves the discovery function and generate_pdf
Raise(what) ==
    /\ pc' = "raised"
    /\ raised' = what

\* what is recorded of one resource treated: the queries made and rejected,
\* the clock read, the artifacts returned, those that were candidates for
\* the selection, and the rows appended
Treated(id, calls, failed, now, returned, cands, rows) ==
    [id |-> id, calls |-> calls, failed |-> failed, now |-> now,
     returned |-> returned, cands |-> cands, rows |-> rows]

\* generate_pdf: pdf.section_title("RDS Backup Details"), then
\* get_rds_backups: clusters = rds.describe_db_clusters().get("DBClusters", [])
rds_describe_db_clusters ==
    /\ pc = "rds_list"
    /\ \/ /\ \E response \in Responses(Clusters) :
                /\ inventory' = response.page
                /\ unread' = response.unread
          /\ pc' = "rds_loop"
          /\ raised' = raised
       \/ /\ Raise("ClientError: describe_db_clusters")
          /\ inventory' = inventory /\ unread' = unread
    /\ pdf' = Append(pdf, "RDS Backup Details")
    /\ i' = 1 /\ out' = <<>> /\ done' = <<>>
    /\ UNCHANGED orch_vars
    /\ UNCHANGED <<variant, stride, instances, vaults, w, backups, failures,
                   fetched, body, written>>

\* a plausible slip: a rejected snapshot query is issued a second time, and
\* the cluster is reported with what the second attempt returned
rds_cluster_retry ==
    /\ pc = "rds_loop" /\ i <= Len(inventory)
    /\ LET cid == inventory[i].DBClusterIdentifier
       IN  \E n \in Sizes, attempts \in {1, 2} :
                LET snaps == Snapshots(stride, cid, n)
                    rows == rows_rds(variant, cid, snaps)
                IN  /\ out' = out \o rows
                    /\ done' = Append(done,
                          Treated(cid, attempts, attempts - 1, Now0, snaps,
                                  snaps, rows))
    /\ i' = i + 1
    /\ unread' = unread
    /\ UNCHANGED orch_vars
    /\ UNCHANGED <<variant, stride, pc, inventory, instances, vaults, w,
                   backups, failures, fetched, pdf, body, raised, written>>

\* get_rds_backups: one turn of `for cluster in clusters`
rds_cluster ==
    /\ pc = "rds_loop" /\ i <= Len(inventory)
    /\ LET cid == inventory[i].DBClusterIdentifier
       IN  \/ \E n \in Sizes :
                LET snaps == Snapshots(stride, cid, n)
                    rows == rows_rds(variant, cid, snaps)
                IN  /\ out' = out \o rows
                    /\ done' = Append(done,
                          Treated(cid, 1, 0, Now0, snaps, snaps, rows))
           \/ LET rows == rds_error_rows(cid, ClientErrorText)
              IN  /\ out' = out \o rows
                  /\ done' = Append(done,
                        Treated(cid, 1, 1, Now0, <<>>, <<>>, rows))
    /\ i' = i + 1
    /\ unread' = unread
    /\ UNCHANGED orch_vars
    /\ UNCHANGED <<variant, stride, pc, inventory, instances, vaults, w,
                   backups, failures, fetched, pdf, body, raised, written>>

\* a plausible slip: the rows are kept and the section is not written when
\* the discovery function returns
Render_deferred(kind, next) ==
    /\ body' = body
    /\ pc' = next
    /\ pdf' = pdf

\* generate_pdf: the section of the kind whose rows were returned
Render(kind, next) ==
    LET sec == section(variant, kind, out)
    IN  /\ body' = [form |-> sec.form, text |-> sec.text,
                    header |-> sec.header,
                    rows |-> IF sec.form = "table"
                             THEN table(sec.header, out) ELSE <<>>]
        /\ pc' = next
        /\ pdf' = pdf

\* generate_pdf: get_rds_backups returns, the RDS section is written
rds_section ==
    /\ pc = "rds_loop" /\ i > Len(inventory)
    /\ Render("rds", "ec2_list")
    /\ unread' = unread
    /\ UNCHANGED orch_vars
    /\ UNCHANGED <<variant, stride, inventory, instances, vaults, i, w,
                   backups, failures, fetched, out, done, raised, written>>

\* generate_pdf: pdf.section_title("EC2 Backup Details"), then
\* get_ec2_backups: describe_instances and the skip() loop
ec2_describe_instances ==
    /\ pc = "ec2_list"
    /\ \/ /\ \E response \in Responses(Instances) :
                /\ inventory' = response.page
                /\ unread' = response.unread
                /\ instances' = instances_of(variant, response.page)
          /\ pc' = "ec2_loop"
          /\ raised' = raised
       \/ /\ Raise("ClientError: describe_instances")
          /\ inventory' = <<>> /\ unread' = <<>> /\ instances' = <<>>
    /\ pdf' = Append(pdf, "EC2 Backup Details")
    /\ i' = 1 /\ out' = <<>> /\ done' = <<>> /\ body' = NoBody
    /\ UNCHANGED orch_vars
    /\ UNCHANGED <<variant, stride, vaults, w, backups, failures, fetched,
                   written>>

\* get_ec2_backups: one turn of `for inst in instances`; the images query
\* and the strptime of the cutoff stand in no try block; datetime.now() is
\* read in every turn
ec2_instance ==
    /\ pc = "ec2_loop" /\ i <= Len(instances)
    /\ LET inst == instances[i]
       IN  \/ \E n \in Sizes, tick \in 0..MaxTick : \E bad \in {0, n} :
                LET amis == ImagesWith(stride, inst, n, bad)
                    now == Now0 + tick
                    six_weeks == now - SixWeeks
                    rows == rows_ec2(variant, inst, amis, six_weeks)
                IN  IF ec2_cutoff_raises(amis)
                    THEN /\ Raise("ValueError: time data does not match")
                         /\ UNCHANGED <<out, done, i>>
                    ELSE /\ out' = out \o rows
                         /\ done' = Append(done,
                               Treated(inst, 1, 0, now, amis,
                                       ec2_cutoff(amis, six_weeks), rows))
                         /\ i' = i + 1
                         /\ UNCHANGED <<pc, raised>>
           \/ /\ Raise("ClientError: describe_images")
              /\ UNCHANGED <<out, done, i>>
    /\ unread' = unread
    /\ UNCHANGED orch_vars
    /\ UNCHANGED <<variant, stride, inventory, instances, vaults, w, backups,
                   failures, fetched, pdf, body, written>>

\* generate_pdf: get_ec2_backups returns, the EC2 section is written
ec2_section ==
    /\ pc = "ec2_loop" /\ i > Len(instances)
    /\ Render("ec2", "efs_list")
    /\ unread' = unread
    /\ UNCHANGED orch_vars
    /\ UNCHANGED <<variant, stride, inventory, instances, vaults, i, w,
                   backups, failures, fetched, out, done, raised, written>>

\* generate_pdf: pdf.section_title("EFS Backup Details"), then
\* get_efs_backups: get_caller_identity, list_backup_vaults,
\* describe_file_systems
efs_list ==
    /\ pc = "efs_list"
    /\ \/ /\ \E vs \in VaultLists, response \in Responses(FileSystems) :
                /\ vaults' = vs
                /\ inventory' = response.page
                /\ unread' = response.unread
          /\ pc' = "efs_loop"
          /\ raised' = raised
       \/ /\ \E op \in {"list_backup_vaults", "describe_file_systems"} :
                Raise("ClientError: " \o op)
          /\ vaults' = <<>> /\ inventory' = <<>> /\ unread' = <<>>
    /\ i' = 1 /\ w' = 1 /\ out' = <<>> /\ done' = <<>>
    /\ backups' = <<>> /\ failures' = 0 /\ fetched' = <<>> /\ body' = NoBody
    /\ instances' = <<>>
    /\ pdf' = Append(pdf, "EFS Backup Details")
    /\ UNCHANGED orch_vars
    /\ UNCHANGED <<variant, stride, written>>

\* get_efs_backups: one turn of `for v in vaults` for the file system i
efs_vault ==
    /\ pc = "efs_loop" /\ i <= Len(inventory) /\ w <= Len(vaults)
    /\ \/ \E n \in VaultSizes :
            LET rps == RecoveryPoints(stride, inventory[i].FileSystemId, w, n)
            IN  /\ backups' = efs_extend(backups, rps)
                /\ fetched' = fetched \o rps
                /\ failures' = failures
       \/ /\ backups' = efs_pass(backups)
          /\ fetched' = fetched
          /\ failures' = failures + 1
    /\ w' = w + 1
    /\ unread' = unread
    /\ UNCHANGED orch_vars
    /\ UNCHANGED <<variant, stride, pc, inventory, instances, vaults, i, out,
                   done, pdf, body, raised, written>>

\* a plausible slip: backups = [] stands before the loop over the file
\* systems, so the list is carried from one file system to the next
efs_filesystem_carried ==
    /\ pc = "efs_loop" /\ i <= Len(inventory) /\ w > Len(vaults)
    /\ LET fs_id == inventory[i].FileSystemId
           rows == rows_efs(variant, fs_id, backups)
       IN  /\ out' = out \o rows
           /\ done' = Append(done,
                 Treated(fs_id, Len(vaults), failures, Now0, fetched, backups,
                         rows))
    /\ i' = i + 1 /\ w' = 1 /\ backups' = backups /\ failures' = 0
    /\ fetched' = <<>>
    /\ unread' = unread
    /\ UNCHANGED orch_vars
    /\ UNCHANGED <<variant, stride, pc, inventory, instances, vaults, pdf,
                   body, raised, written>>

\* a plausible slip: a file system whose vault queries were all rejected is
\* reported with the error, as a cluster is
efs_filesystem_error_row ==
    /\ pc = "efs_loop" /\ i <= Len(inventory) /\ w > Len(vaults)
    /\ LET fs_id == inventory[i].FileSystemId
           rows == IF failures > 0 /\ failures = Len(vaults)
                   THEN << <<fs_id, "Error: " \o ClientErrorText, "-">> >>
                   ELSE rows_efs(variant, fs_id, backups)
       IN  /\ out' = out \o rows
           /\ done' = Append(done,
                 Treated(fs_id, Len(vaults), failures, Now0, fetched, backups,
                         rows))
    /\ i' = i + 1 /\ w' = 1 /\ backups' = <<>> /\ failures' = 0
    /\ fetched' = <<>>
    /\ unread' = unread
    /\ UNCHANGED orch_vars
    /\ UNCHANGED <<variant, stride, pc, inventory, instances, vaults, pdf,
                   body, raised, written>>

\* get_efs_backups: the rows of the file system i, once every vault was asked
efs_filesystem ==
    /\ pc = "efs_loop" /\ i <= Len(inventory) /\ w > Len(vaults)
    /\ LET fs_id == inventory[i].FileSystemId
           rows == rows_efs(variant, fs_id, backups)
       IN  /\ out' = out \o rows
           /\ done' = Append(done,
                 Treated(fs_id, Len(vaults), failures, Now0, fetched, backups,
                         rows))
    /\ i' = i + 1 /\ w' = 1 /\ backups' = <<>> /\ failures' = 0
    /\ fetched' = <<>>
    /\ unread' = unread
    /\ UNCHANGED orch_vars
    /\ UNCHANGED <<variant, stride, pc, inventory, instances, vaults, pdf,
                   body, raised, written>>

\* generate_pdf: get_efs_backups returns, the EFS section is written
efs_section ==
    /\ pc = "efs_loop" /\ i > Len(inventory)
    /\ Render("efs", "output")
    /\ unread' = unread
    /\ UNCHANGED orch_vars
    /\ UNCHANGED <<variant, stride, inventory, instances, vaults, i, w,
                   backups, failures, fetched, out, done, raised, written>>

\* generate_pdf: pdf.output(filename)
pdf_output ==
    /\ pc = "output"
    /\ pc' = "done"
    /\ written' = TRUE
    /\ unread' = unread
    /\ UNCHANGED orch_vars
    /\ UNCHANGED <<variant, stride, inventory, instances, vaults, i, w,
                   backups, failures, fetched, out, done, pdf, body, raised>>

Next ==
    \/ rds_describe_db_clusters
    \/ rds_cluster
    \/ rds_section
    \/ ec2_describe_instances
    \/ ec2_instance
    \/ ec2_section
    \/ efs_list
    \/ efs_vault
    \/ efs_filesystem
    \/ efs_section
    \/ pdf_output

Spec == Init /\ [][Next]_vars

(***************************************************************************)
(* The steps of the orchestrator.                                          *)
(***************************************************************************)
\* run_script_and_wait returns: what is recorded of the script, and the
\* `if success` of __main__
Returned(exit, success) ==
    /\ log' = Append(log, [key |-> MERGE_ORDER[key], exit |-> exit,
                           seen |-> success])
    /\ generated_pdfs' = IF success
                         THEN Append(generated_pdfs,
                                     PDF_OUTPUTS[MERGE_ORDER[key]])
                         ELSE generated_pdfs
    /\ key' = key + 1
    /\ opc' = "loop"

\* a plausible slip: the loop is left when a script fails
run_script_fails_break ==
    /\ opc = "loop" /\ key <= Len(MERGE_ORDER)
    /\ log' = Append(log, [key |-> MERGE_ORDER[key], exit |-> "failed",
                           seen |-> FALSE])
    /\ key' = Len(MERGE_ORDER) + 1
    /\ UNCHANGED <<opc, waited, present, generated_pdfs, merged, uploaded>>
    /\ UNCHANGED vars

\* run_script_and_wait: subprocess.run raises CalledProcessError, whether
\* or not the script left a PDF behind
run_script_fails ==
    /\ opc = "loop" /\ key <= Len(MERGE_ORDER)
    /\ Returned("failed", FALSE)
    /\ UNCHANGED <<waited, present, merged, uploaded>>
    /\ UNCHANGED vars

\* run_script_and_wait: the script exits with 0; its PDF is there or not
run_script_exits ==
    /\ opc = "loop" /\ key <= Len(MERGE_ORDER)
    /\ opc' = "wait"
    /\ waited' = 0
    /\ present' \in BOOLEAN
    /\ UNCHANGED <<key, generated_pdfs, log, merged, uploaded>>
    /\ UNCHANGED vars

\* run_script_and_wait: one turn of `while waited < timeout`; during the
\* sleep the file may appear
poll ==
    /\ opc = "wait" /\ waited < timeout
    /\ IF present
       THEN /\ Returned("ok", TRUE)
            /\ UNCHANGED <<waited, present>>
       ELSE /\ waited' = waited + 1
            /\ present' \in BOOLEAN
            /\ UNCHANGED <<opc, key, generated_pdfs, log>>
    /\ UNCHANGED <<merged, uploaded>>
    /\ UNCHANGED vars

\* run_script_and_wait: the loop ends without the file, return False
wait_timeout ==
    /\ opc = "wait" /\ waited >= timeout
    /\ Returned("ok", FALSE)
    /\ UNCHANGED <<waited, present, merged, uploaded>>
    /\ UNCHANGED vars

\* __main__: merge_pdfs(generated_pdfs, FINAL_OUTPUT)
merge_pdfs ==
    /\ opc = "loop" /\ key > Len(MERGE_ORDER)
    /\ merged' = generated_pdfs
    /\ opc' = "upload"
    /\ UNCHANGED <<key, waited, present, generated_pdfs, log, uploaded>>
    /\ UNCHANGED vars

\* __main__: upload_reports_to_s3(generated_pdfs + [FINAL_OUTPUT])
upload_reports_to_s3 ==
    /\ opc = "upload"
    /\ uploaded' = generated_pdfs \o <<FINAL_OUTPUT>>
    /\ opc' = "end"
    /\ UNCHANGED <<key, waited, present, generated_pdfs, log, merged>>
    /\ UNCHANGED vars

\* the orchestrator alone; the report script it runs as "backup" is
\* backup_report.py
OrchInit == Init /\ variant = SCRIPTS.backup /\ stride = 0

OrchNext ==
    \/ run_script_fails
    \/ run_script_exits
    \/ poll
    \/ wait_timeout
    \/ merge_pdfs
    \/ upload_reports_to_s3

OrchSpec == OrchInit /\ [][OrchNext]_orch_vars

(***************************************************************************)
(* The claims.  What a resource's lookup returned is read from `done`; a   *)
(* claim never refers to the operators the rows were computed with.        *)
(***************************************************************************)
\* the kind whose section is being produced
Kind ==
    IF Len(pdf) = 1 THEN "rds"
    ELSE IF Len(pdf) = 2 THEN "ec2"
    ELSE IF Len(pdf) = 3 THEN "efs"
    ELSE "none"

\* the discovery function of the kind has returned and its section is written
Rendered == pc \in {"ec2_list", "efs_list", "output"}

\* the creation time of an artifact, in seconds
created(a) ==
    IF "SnapshotCreateTime" \in DOMAIN a THEN a.SnapshotCreateTime.secs
    ELSE IF "creation_date" \in DOMAIN a THEN strptime(a.creation_date.text)
    ELSE a.CreationDate.secs

\* is cell the identifier under which the report shows artifact a
IsIdOf(cell, a) ==
    IF "DBClusterSnapshotIdentifier" \in DOMAIN a
    THEN cell = a.DBClusterSnapshotIdentifier
    ELSE IF "id" \in DOMAIN a
    THEN cell = a.id
    ELSE /\ Len(cell) < Len(a.RecoveryPointArn)
         /\ SubSeq(a.RecoveryPointArn, Len(a.RecoveryPointArn) - Len(cell),
                   Len(a.RecoveryPointArn)) = ":" \o cell

\* the cell of a row that names the artifact
id_cell(row) == IF Len(row) = 2 THEN row[1] ELSE row[2]

\* the artifacts of a treated resource that qualify: all of them, and for a
\* compute instance those created no earlier than 42 days before the clock
Qualifying(d) ==
    IF Kind = "ec2"
    THEN SelectSeq(d.returned,
                   LAMBDA a : created(a) >= d.now - 42 * 24 * 3600)
    ELSE d.returned

\* the qualifying artifact the r-th row of a treated resource shows
Shown(d, r) ==
    LET q == Qualifying(d)
    IN  q[CHOOSE a \in 1..Len(q) : IsIdOf(id_cell(d.rows[r]), q[a])]

\* the rows of a treated resource show n different qualifying artifacts, the
\* n latest ones, latest first
ShowsLatest(d, n) ==
    LET q == Qualifying(d)
    IN  /\ Len(d.rows) = n
        /\ \A r \in 1..n : \E a \in 1..Len(q) : IsIdOf(id_cell(d.rows[r]), q[a])
        /\ \A r, t \in 1..n : r # t => id_cell(d.rows[r]) # id_cell(d.rows[t])
        /\ \A r \in 1..(n - 1) : created(Shown(d, r)) >= created(Shown(d, r + 1))
        /\ \A a \in 1..Len(q) :
               (\A r \in 1..n : ~IsIdOf(id_cell(d.rows[r]), q[a]))
               => created(q[a]) <= created(Shown(d, n))

\* C1: for every kind, a resource whose lookup yields more than 5 qualifying
\* artifacts gets exactly 5 rows: the 5 qualifying artifacts with the
\* greatest creation time, in descending order of creation time.
C1_TopFive ==
    \A k \in 1..Len(done) :
        (done[k].failed = 0 /\ Len(Qualifying(done[k])) > 5)
        => ShowsLatest(done[k], 5)

\* a compute instance with 6 recent images, created at different instants
\* and not returned latest first, has got its rows
C1_Witness ==
    /\ Kind = "ec2"
    /\ \E k \in 1..Len(done) :
          /\ Len(Qualifying(done[k])) = 6
          /\ Len(done[k].rows) = 5
          /\ \E a, b \in 1..6 :
                /\ a < b
                /\ created(done[k].returned[a]) < created(done[k].returned[b])

\* the sentinel label of the kind
Sentinel ==
    IF Kind = "ec2" THEN "No AMIs / DLM backups configured"
    ELSE "No backups configured"

\* the treated resource is reported as NotCovered: one row, the resource id
\* and the sentinel label of its kind
NotCovered(d) ==
    /\ Len(d.rows) = 1
    /\ d.rows[1][1] = d.id
    /\ d.rows[1][2] = Sentinel

\* C2: for every kind, a resource whose lookup succeeds with zero qualifying
\* artifacts gets exactly one row, carrying the resource id and the sentinel
\* label of the kind, and no artifact row.
C2_NotCovered ==
    \A k \in 1..Len(done) :
        (done[k].failed = 0 /\ Len(Qualifying(done[k])) = 0)
        => NotCovered(done[k])

\* a compute instance whose only images are older than the cutoff
C2_Witness ==
    /\ Kind = "ec2"
    /\ \E k \in 1..Len(done) :
          /\ done[k].returned # <<>>
          /\ Qualifying(done[k]) = <<>>
          /\ NotCovered(done[k])

\* the identifier and the tags of an inventoried resource
id_of(r) ==
    IF "DBClusterIdentifier" \in DOMAIN r THEN r.DBClusterIdentifier
    ELSE IF "InstanceId" \in DOMAIN r THEN r.InstanceId
    ELSE r.FileSystemId
tags_of(r) == IF "TagList" \in DOMAIN r THEN r.TagList ELSE r.Tags

\* the exclusion rule: a tag key or a tag value contains, whatever the case
\* of its letters, one of the two tokens
TagMatch(tags) ==
    \E t \in 1..Len(tags) : \E x \in {"autoscaling", "karpenter"} :
        contains(x, tags[t].Key) \/ contains(x, tags[t].Value)

\* the resource has at least one row
HasRow(rid) == \E k \in 1..Len(done) : done[k].id = rid

Among(a, seq) == \E c \in 1..Len(seq) : seq[c] = a

\* is artifact a shown by a row of the treated resource d
InRows(a, d) == \E r \in 1..Len(d.rows) : IsIdOf(id_cell(d.rows[r]), a)

\* C4: in compute discovery, an image created exactly 42 * 24 hours before
\* the instant read for its instance is kept as a candidate, and an image
\* created one second earlier is discarded.
C4_CutoffInclusive ==
    Kind = "ec2" =>
        \A k \in 1..Len(done) : \A a \in 1..Len(done[k].returned) :
            LET d == done[k]
                img == d.returned[a]
                age == d.now - created(img)
            IN  /\ age = 42 * 24 * 3600 =>
                      /\ Among(img, d.cands)
                      /\ Len(d.cands) <= 5 => InRows(img, d)
                /\ age = 42 * 24 * 3600 + 1 =>
                      /\ ~Among(img, d.cands)
                      /\ ~InRows(img, d)

\* an instance with an image exactly at the cutoff, shown, and an image one
\* second older, not shown
C4_Witness ==
    /\ Kind = "ec2"
    /\ \E k \in 1..Len(done) : \E a, b \in 1..Len(done[k].returned) :
          /\ done[k].now - created(done[k].returned[a]) = 42 * 24 * 3600
          /\ InRows(done[k].returned[a], done[k])
          /\ done[k].now - created(done[k].returned[b]) = 42 * 24 * 3600 + 1
          /\ ~InRows(done[k].returned[b], done[k])

\* C5: in file-system discovery the recovery points the vaults return for
\* one file system are put together before the selection: the rows are the
\* (at most 5) latest of all of them, latest first, each shown once.
C5_VaultsMerged ==
    Kind = "efs" =>
        \A k \in 1..Len(done) :
            done[k].returned # <<>> =>
                ShowsLatest(done[k],
                            IF Len(done[k].returned) < 5
                            THEN Len(done[k].returned) ELSE 5)

\* a file system with more than 5 recovery points in two vaults, and rows
\* from both vaults
C5_Witness ==
    /\ Kind = "efs"
    /\ \E k \in 1..Len(done) :
          /\ done[k].calls = 2
          /\ Len(done[k].returned) > 5
          /\ Len(done[k].rows) = 5
          /\ \E r, t \in 1..5 :
                /\ contains("-v1-", id_cell(done[k].rows[r]))
                /\ contains("-v2-", id_cell(done[k].rows[t]))

\* C6: in generate_pdf, for every kind, a section with no resource, or in
\* which every resource is NotCovered, is written as a single banner and
\* the table renderer is not called for it.
C6_BannerWhenNothingCovered ==
    (Rendered /\ \A k \in 1..Len(done) : NotCovered(done[k]))
    => (body.form = "banner" /\ body.rows = <<>>)

\* C7: in generate_pdf, a section is a banner only if it is empty or every
\* resource in it is NotCovered; as soon as one resource is Covered or has
\* an error row, the section is a table that holds every row of the kind.
C7_BannerOnlyWhenNothingCovered ==
    Rendered =>
        /\ body.form = "banner" => \A k \in 1..Len(done) : NotCovered(done[k])
        /\ (\E k \in 1..Len(done) : ~NotCovered(done[k])) =>
              /\ body.form = "table"
              /\ Len(body.rows) = Len(out)
              /\ \A r \in 1..Len(out) : body.rows[r].cells = out[r]

\* the treated resource is reported as failed: one row, the resource id and
\* a cell that starts with "Error: "
ErrorRow(d) ==
    /\ Len(d.rows) = 1
    /\ d.rows[1][1] = d.id
    /\ Len(d.rows[1][2]) >= 7
    /\ SubSeq(d.rows[1][2], 1, 7) = "Error: "

\* the treated resource is reported as Covered: every row shows one of its
\* qualifying artifacts
Covered(d) ==
    /\ d.rows # <<>>
    /\ \A r \in 1..Len(d.rows) :
          \E a \in 1..Len(Qualifying(d)) :
              IsIdOf(id_cell(d.rows[r]), Qualifying(d)[a])

\* a table with the rows of a covered cluster and the sentinel row of a
\* cluster without snapshots, side by side
C7_Witness ==
    /\ Rendered /\ Kind = "rds"
    /\ body.form = "table"
    /\ Len(body.rows) = Len(out)
    /\ \E a, b \in 1..Len(done) : Covered(done[a]) /\ NotCovered(done[b])

\* the lookup of the resource was rejected; a vault query that fails for a
\* file system is not one (the vault contributes nothing, by design)
LookupFailed(d) == Kind # "efs" /\ d.failed > 0

\* C8: every resource let through has exactly one of three outcomes:
\* DiscoveryError (an error row) iff its lookup failed, NotCovered (the
\* sentinel row) iff the lookup succeeded without a qualifying artifact,
\* Covered (artifact rows) iff artifacts were selected.
C8_ThreeOutcomes ==
    /\ \A k \in 1..Len(done) :
          LET d == done[k]
          IN  /\ ErrorRow(d) <=> LookupFailed(d)
              /\ NotCovered(d) <=> (~LookupFailed(d) /\ Qualifying(d) = <<>>)
              /\ Covered(d) <=> (~LookupFailed(d) /\ Qualifying(d) # <<>>)
              /\ ~(ErrorRow(d) /\ NotCovered(d))
              /\ ~(ErrorRow(d) /\ Covered(d))
              /\ ~(NotCovered(d) /\ Covered(d))
    /\ raised = "ClientError: describe_images" =>
          \E k \in 1..Len(done) :
              done[k].id = instances[i] /\ ErrorRow(done[k])

\* C9: for every kind, a rejected lookup of one resource becomes one row
\* "Error: <message>" for that resource, and the other resources of the
\* kind are still treated: the discovery function returns.
C9_LookupFailureRecovered ==
    /\ \A k \in 1..Len(done) :
          LookupFailed(done[k]) =>
              /\ Len(done[k].rows) = 1
              /\ done[k].rows[1][1] = done[k].id
              /\ done[k].rows[1][2] = "Error: " \o ClientErrorText
    /\ raised # "ClientError: describe_images"
    /\ Rendered =>
          \A k \in 1..Len(inventory) :
              (Kind = "ec2" /\ TagMatch(tags_of(inventory[k])))
              \/ HasRow(id_of(inventory[k]))

\* the calls that fetch the inventory of a kind
InventoryCalls ==
    {"describe_db_clusters", "describe_instances", "list_backup_vaults",
     "describe_file_systems"}

\* C10: when the inventory fetch of one kind fails, only the section of
\* that kind is lost: the run ends with the three sections started and the
\* report written.
C10_OtherSectionsWritten ==
    (/\ \E op \in InventoryCalls : raised = "ClientError: " \o op
     /\ ~ENABLED Next)
    => (/\ written
        /\ pdf = <<"RDS Backup Details", "EC2 Backup Details",
                   "EFS Backup Details">>)

\* C11: in file-system discovery a rejected vault query is not propagated
\* and adds nothing: every vault is still queried for the file system, and
\* the candidate list holds all the recovery points the other vaults
\* returned, those queried before the failing one and those queried after.
C11_VaultFailureSwallowed ==
    Kind = "efs" =>
        /\ pc = "efs_loop" => backups = fetched
        /\ \A k \in 1..Len(done) :
              /\ done[k].calls = Len(vaults)
              /\ done[k].cands = done[k].returned
              /\ done[k].returned # <<>> => Covered(done[k])
        /\ (pc = "raised" =>
               \E op \in InventoryCalls : raised = "ClientError: " \o op)

\* two file systems treated with two vaults: for one the first vault was
\* rejected and the second answered, for the other the reverse, and each
\* shows the recovery points of the vault that answered
C11_Witness ==
    /\ Kind = "efs"
    /\ \E a, b \in 1..Len(done) :
          /\ done[a].calls = 2 /\ done[a].failed = 1
          /\ contains("-v1-", id_cell(done[a].rows[1]))
          /\ done[b].calls = 2 /\ done[b].failed = 1
          /\ contains("-v2-", id_cell(done[b].rows[1]))

\* the row counts as a NotCovered row in the decision of the running report
\* file whether the section of the kind collapses: alone, it collapses it
CountsAsNotCovered(row) == section(variant, Kind, <<row>>).form = "banner"

\* C12: the highlighting of BorderPDF.table and the collapse decision of
\* generate_pdf match the sentinel in the same way: in every kind, a row
\* drawn by the table is highlighted as a no-backup row if and only if it
\* counts as a NotCovered row in the collapse decision.
C12_HighlightAgreesWithCollapse ==
    (Rendered /\ body.form = "table") =>
        \A r \in 1..Len(body.rows) :
            body.rows[r].red <=> CountsAsNotCovered(out[r])

\* does the string begin with the prefix
StartsWith(cell, prefix) ==
    Len(cell) >= Len(prefix) /\ SubSeq(cell, 1, Len(prefix)) = prefix

\* the timestamp cell of a row
time_cell(row) == row[Len(row)]

\* the k rows of a treated resource with k selected artifacts: each carries
\* the identifier of the resource in its first cell, one artifact of the
\* resource, a different one in each row, and the artifact's timestamp
CarriesResource(d, k) ==
    /\ Len(d.rows) = k
    /\ \A r \in 1..k :
          /\ StartsWith(d.rows[r][1], d.id)
          /\ \E a \in 1..Len(Qualifying(d)) :
                IsIdOf(id_cell(d.rows[r]), Qualifying(d)[a])
          /\ time_cell(d.rows[r]) = strftime(created(Shown(d, r)))
    /\ \A r, t \in 1..k : r # t => id_cell(d.rows[r]) # id_cell(d.rows[t])

\* C13: in a section rendered as a table, a Covered resource with k selected
\* artifacts (1 <= k <= 5) has exactly k rows, each carrying the identifier
\* of the resource, one distinct artifact id and its timestamp; for
\* database clusters as for compute instances and file systems.
C13_RowsCarryResource ==
    (Rendered /\ body.form = "table") =>
        \A j \in 1..Len(done) :
            (~LookupFailed(done[j]) /\ Qualifying(done[j]) # <<>>)
            => CarriesResource(done[j],
                               IF Len(Qualifying(done[j])) < 5
                               THEN Len(Qualifying(done[j])) ELSE 5)

\* the rows of a resource are one row: its id, then the sentinel label of
\* the kind or an error text
OneRow(rid, rows) ==
    /\ Len(rows) = 1
    /\ rows[1][1] = rid
    /\ rows[1][2] = Sentinel \/ StartsWith(rows[1][2], "Error: ")

\* the rows the run has produced for a resource, none when it was not
\* recorded as treated
RowsOf(rid) ==
    IF HasRow(rid)
    THEN done[CHOOSE k \in 1..Len(done) : done[k].id = rid].rows
    ELSE <<>>

\* C14: a resource that is NotCovered (lookup succeeded, nothing qualifies)
\* or DiscoveryError (lookup rejected) has exactly one row, the resource id
\* followed by the sentinel or the error text: never none, never several.
C14_OneRowWhenNothingToShow ==
    /\ \A k \in 1..Len(done) :
          (LookupFailed(done[k]) \/ Qualifying(done[k]) = <<>>)
          => OneRow(done[k].id, done[k].rows)
    /\ raised = "ClientError: describe_images"
          => OneRow(instances[i], RowsOf(instances[i]))

\* a backup discovery query (snapshots, images or recovery points) has been
\* issued for the resource
Queried(rid) ==
    \/ \E k \in 1..Len(done) : done[k].id = rid /\ done[k].calls > 0
    \/ raised = "ClientError: describe_images" /\ instances[i] = rid
    \/ /\ pc = "efs_loop" /\ i <= Len(inventory) /\ w > 1
       /\ inventory[i].FileSystemId = rid

\* the rows built so far hold an error row of the resource
ErrorRowOf(rid) ==
    \E r \in 1..Len(out) :
        StartsWith(out[r][1], rid) /\ StartsWith(out[r][2], "Error: ")

C16_EveryPageAudited ==
    Rendered =>
        \A k \in 1..Len(unread) :
            ~TagMatch(tags_of(unread[k])) => HasRow(id_of(unread[k]))

\* the image was created before the cutoff of the treated instance
TooOld(a, d) == created(a) < d.now - 42 * 24 * 3600

\* C17: for a compute instance, an image older than the 6-week cutoff never
\* appears in its rows, whatever the number of such images and even when
\* fewer than 5 recent images exist (the rows are then as many as the recent
\* images); when no image is within the cutoff the instance is NotCovered,
\* however many older images were returned.
C17_OldImagesDiscarded ==
    Kind = "ec2" =>
        \A k \in 1..Len(done) :
            LET d == done[k]
                recent == Len(Qualifying(d))
            IN  /\ \A a \in 1..Len(d.returned) :
                      TooOld(d.returned[a], d) => ~InRows(d.returned[a], d)
                /\ (recent > 0 /\ recent < 5) => Len(d.rows) = recent
                /\ recent = 0 => NotCovered(d)

\* an instance for which more images than the cap were returned, some older
\* than the cutoff and fewer than five within it: only the recent are shown
C17_Witness ==
    /\ Kind = "ec2"
    /\ \E k \in 1..Len(done) :
          LET d == done[k]
          IN  /\ Len(d.returned) = MaxArtifacts
              /\ \E a \in 1..Len(d.returned) : TooOld(d.returned[a], d)
              /\ Len(Qualifying(d)) \in 1..4
              /\ Len(d.rows) = Len(Qualifying(d))

\* every row of the treated resource shows one of the artifacts returned
\* for it, and the rows are as many as the artifacts, five at most
ShowsReturned(d) ==
    /\ Len(d.rows) = (IF Len(d.returned) < 5 THEN Len(d.returned) ELSE 5)
    /\ \A r \in 1..Len(d.rows) :
          \E a \in 1..Len(d.returned) :
              IsIdOf(id_cell(d.rows[r]), d.returned[a])

\* C18: for database clusters, and likewise for file systems, no recency
\* cutoff is applied: every snapshot or recovery point returned is a
\* candidate whatever its age, so a resource whose only artifacts are older
\* than six weeks is Covered and shows them, and is never NotCovered.
C18_NoCutoffForSnapshots ==
    Kind \in {"rds", "efs"} =>
        \A k \in 1..Len(done) :
            LET d == done[k]
            IN  (/\ d.returned # <<>>
                 /\ \A a \in 1..Len(d.returned) : TooOld(d.returned[a], d))
                => /\ d.cands = d.returned
                   /\ ShowsReturned(d)
                   /\ ~NotCovered(d)

\* a cluster whose snapshots, more than the cap, are all months old: it is
\* reported with five of them
C18_Witness ==
    /\ Kind = "rds"
    /\ \E k \in 1..Len(done) :
          LET d == done[k]
          IN  /\ Len(d.returned) = MaxArtifacts
              /\ \A a \in 1..Len(d.returned) :
                    d.now - created(d.returned[a]) > 100 * 24 * 3600
              /\ ShowsReturned(d)
              /\ Len(d.rows) = 5

\* the place, in the order the provider returned them, of the artifact the
\* r-th row of a treated resource shows
Place(d, r) ==
    CHOOSE a \in 1..Len(d.returned) :
        IsIdOf(id_cell(d.rows[r]), d.returned[a])

\* C19: the selection is stable.  Among the artifacts of one resource with
\* equal creation time, the rows follow the order in which the provider
\* returned them; and when such artifacts are partly shown and partly cut
\* off by the cap of 5, those shown were returned before those cut off.
C19_StableSelection ==
    \A k \in 1..Len(done) :
        LET d == done[k]
        IN  (~LookupFailed(d) /\ Qualifying(d) # <<>>) =>
                /\ \A r, t \in 1..Len(d.rows) :
                      (/\ r < t
                       /\ created(d.returned[Place(d, r)])
                          = created(d.returned[Place(d, t)]))
                      => Place(d, r) < Place(d, t)
                /\ \A r \in 1..Len(d.rows) : \A b \in 1..Len(d.returned) :
                      (/\ ~InRows(d.returned[b], d)
                       /\ created(d.returned[b])
                          = created(d.returned[Place(d, r)]))
                      => Place(d, r) < b

\* six artifacts returned, the fifth row shows one that has the creation
\* time of one left out, and two rows show artifacts created together
C19_Witness ==
    \E k \in 1..Len(done) :
        LET d == done[k]
        IN  /\ ~LookupFailed(d)
            /\ Len(Qualifying(d)) = MaxArtifacts
            /\ Len(d.rows) = 5
            /\ \E b \in 1..Len(d.returned) :
                  /\ ~InRows(d.returned[b], d)
                  /\ created(d.returned[b])
                     = created(d.returned[Place(d, 5)])
                  /\ Place(d, 5) < b
            /\ \E r, t \in 1..4 :
                  /\ r < t
                  /\ created(d.returned[Place(d, r)])
                     = created(d.returned[Place(d, t)])
                  /\ created(d.returned[Place(d, r)])
                     > created(d.returned[Place(d, 5)])

\* the sections written in full, title and body
SectionsEmitted ==
    IF pdf = <<>> THEN 0
    ELSE IF body.form = "none" THEN Len(pdf) - 1
    ELSE Len(pdf)

\* the step issues provider calls of the kind: it is taken where the
\* discovery function of the kind lists or queries, and is not the step
\* that writes the section (nor, for a file system, the one that builds
\* its rows once the vaults were asked)
CallsRds == pc \in {"rds_list", "rds_loop"} /\ pc' # "ec2_list"
CallsEc2 == pc \in {"ec2_list", "ec2_loop"} /\ pc' # "efs_list"
CallsEfs == pc = "efs_list" \/ (pc = "efs_loop" /\ w' = w + 1)

\* the titles of the report, in the order of generate_pdf
Titles == <<"RDS Backup Details", "EC2 Backup Details", "EFS Backup Details">>

\* C20: within one run the kinds are processed one after another in the
\* order Database, Compute, FileSystem: a step that issues provider calls
\* issues them for one kind only, for the first kind whose section is not
\* yet written, so no call of a later kind is issued before the preceding
\* kind's calls are over and its section is emitted; the sections are
\* emitted in that order and never taken back.
C20_KindsInSequence ==
    [][/\ CallsRds => (SectionsEmitted = 0 /\ ~CallsEc2 /\ ~CallsEfs)
       /\ CallsEc2 => (SectionsEmitted = 1 /\ ~CallsRds /\ ~CallsEfs)
       /\ CallsEfs => (SectionsEmitted = 2 /\ ~CallsRds /\ ~CallsEc2)
       /\ SectionsEmitted' \in {SectionsEmitted, SectionsEmitted + 1}
       /\ pdf' = SubSeq(Titles, 1, Len(pdf'))
       /\ written' => SectionsEmitted' = 3]_vars

\* the vaults are being queried for a file system, after the sections of
\* the database clusters and of the compute instances were written
C20_Witness ==
    /\ pc = "efs_loop" /\ w > 1
    /\ pdf = Titles
    /\ SectionsEmitted = 2

\* the queries a kind issues for one resource when none is repeated: one,
\* and for a file system one per vault
QueriesPerResource == IF Kind = "efs" THEN Len(vaults) ELSE 1

\* C21: no external call is retried.  In one scan a resource is treated at
\* most once; the snapshot query is issued once per cluster and the image
\* query once per instance, the recovery-point query once per file system
\* and vault, also when the call is rejected; and after an uncaught
\* rejection nothing more is called.
C21_NoRetry ==
    [][/\ pc # "raised"
       /\ Len(done') > Len(done) =>
             /\ ~HasRow(done'[Len(done')].id)
             /\ i' = i + 1
       /\ \A k \in 1..Len(done') :
             /\ done'[k].calls = QueriesPerResource'
             /\ done'[k].failed <= done'[k].calls
       /\ (pc = "efs_loop" /\ pc' = "efs_loop") =>
             /\ w <= Len(vaults) => (w' = w + 1 /\ i' = i)
             /\ w > Len(vaults) => (w' = 1 /\ i' = i + 1)
             /\ failures' <= w' - 1
       /\ raised' = "ClientError: describe_images" =>
             (i' = i /\ ~HasRow(instances[i]))]_vars

\* the snapshot query of the first cluster was rejected, once, and the
\* second cluster has been treated after it
C21_Witness ==
    /\ Kind = "rds" /\ Len(done) = 2
    /\ done[1].failed = 1 /\ done[1].calls = 1
    /\ done[2].calls = 1

\* C22: every scan ends, with the three sections written or failed hard, and
\* it fails hard only on an enumeration-level error: an exception that
\* leaves generate_pdf is that of an inventory call, never that of the
\* lookup of one resource (compute included) or of one vault query.
C22_FailsHardOnlyOnEnumeration ==
    pc = "raised" => \E op \in InventoryCalls : raised = "ClientError: " \o op

\* C23: when the creation time of a backup artifact cannot be parsed the run
\* does not fail and the resource is not turned into an error: no
\* ValueError leaves the discovery functions, and every row of a treated
\* compute instance shows, for an image whose creation_date does not match
\* the format, the raw string.
C23_UnparsedTimeShownRaw ==
    /\ ~StartsWith(raised, "ValueError")
    /\ Kind = "ec2" =>
          \A k \in 1..Len(done) : \A a \in 1..Len(done[k].returned) :
              LET img == done[k].returned[a]
              IN  ~strptime_ok(img.creation_date.text) =>
                      \E r \in 1..Len(done[k].rows) :
                          /\ id_cell(done[k].rows[r]) = img.id
                          /\ time_cell(done[k].rows[r])
                             = img.creation_date.text

\* C24: for every resource kind, the sentinel label of a NotCovered row
\* contains "no backup", whatever the case of its letters.
C24_SentinelHasToken ==
    \A k \in 1..Len(done) :
        NotCovered(done[k]) => contains("no backup", done[k].rows[1][2])

\* the resources of the inventory that are to be reported: all of them, and
\* of the compute instances those whose tags do not match
Reportable ==
    SelectSeq(inventory,
              LAMBDA r : ~(Kind = "ec2" /\ TagMatch(tags_of(r))))

\* the groups of rows of the first k treated resources, one after another
RECURSIVE Groups(_)
Groups(k) == IF k = 0 THEN <<>> ELSE Groups(k - 1) \o done[k].rows

BelongsTo(a, rid) ==
    IF "DBClusterSnapshotIdentifier" \in DOMAIN a
    THEN StartsWith(a.DBClusterSnapshotIdentifier, "rds:" \o rid \o "-")
    ELSE IF "name" \in DOMAIN a
    THEN StartsWith(a.name, "dlm-" \o rid \o "-")
    ELSE a.ResourceArn = "arn:aws:elasticfilesystem:" \o AWS_REGION \o ":"
                         \o Account \o ":file-system/" \o rid

\* the row of a treated resource is its sentinel or error row, or shows an
\* artifact that a query made for that resource returned
OwnRow(d, row, label) ==
    \/ /\ row[1] = d.id
       /\ row[2] = label \/ StartsWith(row[2], "Error: ")
    \/ \E a \in 1..Len(d.returned) :
          /\ IsIdOf(id_cell(row), d.returned[a])
          /\ BelongsTo(d.returned[a], d.id)

\* the step is a turn of one of the three discovery loops
LoopTurn == pc' = pc /\ pc \in {"rds_loop", "ec2_loop", "efs_loop"}

\* C26: no state leaks between resources or kinds.  The rows of a resource
\* show only artifacts returned by the queries made for that resource; the
\* candidate list of a file system starts empty; and a turn of a discovery
\* loop changes nothing but the row list being built (to which it only
\* appends), the record of the resources treated and its own loop
\* variables.
C26_NoLeak ==
    [][/\ \A k \in 1..Len(done') : \A r \in 1..Len(done'[k].rows) :
             OwnRow(done'[k], done'[k].rows[r], Sentinel')
       /\ (pc' = "efs_loop" /\ w' = 1) =>
             (backups' = <<>> /\ fetched' = <<>> /\ failures' = 0)
       /\ LoopTurn =>
             /\ UNCHANGED <<variant, stride, inventory, unread, instances,
                            vaults, pdf, body, raised, written>>
             /\ SubSeq(out', 1, Len(out)) = out
             /\ SubSeq(done', 1, Len(done)) = done]_vars

\* two file systems were treated, each with recovery points returned by
\* both vaults, and each is shown with its own
C26_Witness ==
    /\ Kind = "efs" /\ Len(done) = 2
    /\ \A k \in 1..2 :
          /\ Len(done[k].returned) > MaxPerVault
          /\ \A r \in 1..Len(done[k].rows) :
                OwnRow(done[k], done[k].rows[r], Sentinel)
          /\ StartsWith(id_cell(done[k].rows[1]), done[k].id)

\* the rows the report file v produces for a treated resource, from what
\* the provider answered for it
RowsIn(v, d) ==
    IF Kind = "rds"
    THEN IF d.failed > 0 THEN rds_error_rows(d.id, ClientErrorText)
         ELSE rows_rds(v, d.id, d.returned)
    ELSE IF Kind = "ec2"
    THEN rows_ec2(v, d.id, d.returned, d.now - SixWeeks)
    ELSE rows_efs(v, d.id, d.cands)

\* C27: the three report files are equivalent on row production.  For the
\* same inventory, the same answers and the same failures, the rows the
\* running file has produced for every resource are those each of the
\* three files produces, and the instances it lets through are those each
\* of them lets through (each of the other two is computed and compared).
C27_VariantsAgreeOnRows ==
    \A v \in Variants \ {variant} :
        /\ \A k \in 1..Len(done) : done[k].rows = RowsIn(v, done[k])
        /\ Kind = "ec2" => instances = instances_of(v, inventory)

\* a file other than backup_report.py has run the compute discovery for an
\* instance it left out because of the value of a tag, written with a
\* capital, and an instance it reported with rows of images
C27_Witness ==
    /\ variant # "backup_report.py" /\ Kind = "ec2" /\ Rendered
    /\ Len(inventory) = 2 /\ Len(done) = 1
    /\ \E t \in 1..2 : tags_of(inventory[t]) = KarpenterTags
    /\ Len(done[1].rows) > 1

\* the rows of a file system without recovery points
NoBackupsRow(fs_id) == << <<fs_id, "No backups configured", "-">> >>

\* C28: in get_efs_backups a file system never yields an error row.  When
\* the recovery-point query was rejected for every vault, or there is no
\* vault, the file system has the one row with the "No backups configured"
\* sentinel, the row of a file system whose queries all succeeded and
\* returned no recovery point.
C28_NoErrorRowForFileSystem ==
    Kind = "efs" =>
        \A k \in 1..Len(done) :
            LET d == done[k]
            IN  /\ \A r \in 1..Len(d.rows) :
                      ~StartsWith(d.rows[r][2], "Error")
                /\ d.failed = d.calls => d.rows = NoBackupsRow(d.id)
                /\ (d.failed = 0 /\ d.returned = <<>>)
                      => d.rows = NoBackupsRow(d.id)

\* of two file systems, the queries of the first were rejected by both
\* vaults and those of the second returned nothing: they have the same row
C28_Witness ==
    /\ Kind = "efs" /\ Len(done) = 2
    /\ done[1].calls = 2 /\ done[1].failed = 2
    /\ done[2].calls = 2 /\ done[2].failed = 0 /\ done[2].returned = <<>>
    /\ done[1].rows = NoBackupsRow(done[1].id)
    /\ done[2].rows = NoBackupsRow(done[2].id)

\* the number of columns of the section of the kind
Columns == IF Kind = "rds" THEN 2 ELSE 3

\* C29: every row a discovery function returns has as many cells as the
\* header its section is rendered with, 2 for the database section and 3
\* for the compute and the file-system sections, whatever the outcome of
\* the resource; so the rows BorderPDF.table draws are the rows it was
\* given, none padded and none truncated.
C29_RowsFitHeader ==
    /\ \A r \in 1..Len(out) : Len(out[r]) = Columns
    /\ (Rendered /\ body.form = "table") =>
          /\ Len(body.header) = Columns
          /\ Len(body.rows) = Len(out)
          /\ \A r \in 1..Len(out) : body.rows[r].cells = out[r]

\* the database section is drawn as a table with the error row of a cluster
\* and the rows of the snapshots of another
C29_Witness ==
    /\ Kind = "rds" /\ Rendered /\ body.form = "table"
    /\ Len(done) = 2
    /\ ErrorRow(done[1])
    /\ Len(done[2].rows) = 5
    /\ body.rows[1].cells = out[1]
    /\ Len(body.rows[6].cells) = 2

\* the expected PDFs of the scripts recorded as exited with 0 and seen, in
\* the order of the record
RECURSIVE SeenOutputs(_)
SeenOutputs(n) ==
    IF n = 0 THEN <<>>
    ELSE IF log[n].exit = "ok" /\ log[n].seen
    THEN Append(SeenOutputs(n - 1), PDF_OUTPUTS[log[n].key])
    ELSE SeenOutputs(n - 1)

\* merge_pdfs was called; upload_reports_to_s3 was called
Merging == opc \in {"upload", "end"}
Uploading == opc = "end"

\* C30: in the orchestrator every script of MERGE_ORDER is run exactly once
\* and in that order, also after scripts that failed or whose PDF was not
\* seen within the wait; the list handed to merge_pdfs holds, in MERGE_ORDER
\* order, the expected PDFs of the scripts that exited successfully and
\* whose file was seen within the 180 polls; merging starts only after the
\* last script was run, and upload only after merging.
C30_ScriptsInMergeOrder ==
    /\ Len(log) = key - 1
    /\ \A n \in 1..Len(log) :
          /\ log[n].key = MERGE_ORDER[n]
          /\ log[n].exit = "failed" => ~log[n].seen
    /\ generated_pdfs = SeenOutputs(Len(log))
    /\ opc = "wait" => waited <= timeout
    /\ Merging =>
          /\ Len(log) = Len(MERGE_ORDER)
          /\ merged = SeenOutputs(Len(log))
    /\ ~Merging => (merged = <<>> /\ uploaded = <<>>)
    /\ Uploading => uploaded = merged \o <<FINAL_OUTPUT>>
    /\ ~Uploading => uploaded = <<>>

\* the first script failed and the PDF of the second was never seen; the
\* other four were run all the same and their PDFs merged and uploaded
C30_Witness ==
    /\ Uploading
    /\ log[1].exit = "failed"
    /\ log[2].exit = "ok" /\ ~log[2].seen
    /\ merged = <<PDF_OUTPUTS.securityhub, PDF_OUTPUTS.clientcentral,
                  PDF_OUTPUTS.backup, PDF_OUTPUTS.monitoring>>

====
